---------------------------- MODULE Spec2Model ----------------------------
(***************************************************************************)
(* A model of meow_meow_export.py: the plugin that exports every leaf      *)
(* layer of a painter project to a PNG and rebuilds the layer hierarchy    *)
(* as a layered document per texture set.                                  *)
(*                                                                         *)
(* The host (layer tree, export facility, file system, document library)   *)
(* is the environment: the layer tree, the visibility flags and the blend  *)
(* modes are drawn in Init, the status of each host export and of each     *)
(* document write is chosen when the call returns.                         *)
(***************************************************************************)
EXTENDS Integers, Sequences, FiniteSets, TLC

\* Bounds of the model.
MaxNodes == 3       \* nodes (groups and leaf layers) of the project
MaxRuns == 1        \* times the menu action is triggered with no run in flight
MaxReentries == 1   \* times it is triggered again while a run is in flight

\* The host's texture sets; each has one stack (a non-layered material).
TextureSets == <<1, 2>>

VARIABLES
    kind,             \* node -> "group" | "layer"            (isinstance)
    parent,           \* node -> the group holding it, 0 for a root node
    stackOf,          \* node -> the stack whose tree holds it
    mode,             \* node -> base-color blend mode (a member name, or None)
    projectOpen,      \* whether project.file_path() returns (else ProjectError)
    visible,          \* node -> the host's visibility flag
    node_visibility,  \* the module-level dict: uid -> saved visibility
    fs,               \* the export directory, the cache, the written documents
    errors,           \* number of ERROR records logged
    runs,             \* stack of generate_textures activations in flight
    outcomes,         \* the finished activations, oldest first
    calls             \* the callbacks of one pass of perform, in order

vars == <<kind, parent, stackOf, mode, projectOpen, visible, node_visibility,
          fs, errors, runs, outcomes, calls>>

Nodes == 1..MaxNodes

--------------------------------------------------------------------------
(* Blend modes.  A host blend mode is written by the member name that      *)
(* str(mode) shows after the dot; an unset blend mode is Python's None.    *)

None == "None"

\* Members of substance_painter.layerstack.BlendingMode used by the model.
HostBlendModes == {"Normal", "Multiply", "Tint", "NormalMapCombine"}

\* Members of psapi.enum.BlendMode used by the model ("tint" is not one).
PsapiBlendModes == {"normal", "multiply"}

\* str(x).split('.'): "BlendingMode.Multiply" -> 2 parts, "None" -> 1 part.
SplitStr(m) == IF m = None THEN <<"None">> ELSE <<"BlendingMode", m>>

\* str.lower() on a member name.
Lower(name) ==
    CASE name = "Normal" -> "normal"
      [] name = "Multiply" -> "multiply"
      [] name = "Tint" -> "tint"
      [] name = "NormalMapCombine" -> "normalmapcombine"
      [] OTHER -> name

\* name.startswith("NormalMap")
StartsWithNormalMap(name) == name \in {"NormalMapCombine"}

AttributeError == "AttributeError"
IndexError == "IndexError"

\* The value returned by get_psapi_blending_mode, or the exception it raises.
get_psapi_blending_mode(m) ==
    IF m # None /\ ~StartsWithNormalMap(SplitStr(m)[2])
    THEN IF Lower(SplitStr(m)[2]) \in PsapiBlendModes
         THEN Lower(SplitStr(m)[2])
         ELSE AttributeError
    ELSE None

--------------------------------------------------------------------------
(* The layer tree and the walker.                                          *)

\* The nodes in the order of their numbers, which is the order of siblings.
NodeSeq == [i \in 1..MaxNodes |-> i]

\* node.sub_layers(): the children of a group, in their order.
sub_layers(n) == SelectSeq(NodeSeq, LAMBDA c : parent[c] = n)

\* texture_set.all_stacks()
all_stacks(ts) == <<ts>>

\* substance_painter.layerstack.get_root_layer_nodes(stack)
get_root_layer_nodes(s) == SelectSeq(NodeSeq, LAMBDA r : parent[r] = 0 /\ stackOf[r] = s)

\* perform's loop_nodes: the callbacks it makes on `nodes`, in order.
RECURSIVE loop_nodes_PostMut(_, _)
loop_nodes_PostMut(nodes, func_group) ==
    IF nodes = <<>> THEN <<>>
    ELSE LET node == Head(nodes) IN
         (IF kind[node] = "group"
          THEN loop_nodes_PostMut(sub_layers(node), func_group)
               \o (IF func_group THEN <<[f |-> "func_group", node |-> node]>> ELSE <<>>)
          ELSE <<[f |-> "func_layer", node |-> node]>>)
         \o loop_nodes_PostMut(Tail(nodes), func_group)

RECURSIVE loop_nodes(_, _)
loop_nodes(nodes, func_group) ==
    IF nodes = <<>> THEN <<>>
    ELSE LET node == Head(nodes) IN
         (IF kind[node] = "group"
          THEN (IF func_group THEN <<[f |-> "func_group", node |-> node]>> ELSE <<>>)
               \o loop_nodes(sub_layers(node), func_group)
          ELSE <<[f |-> "func_layer", node |-> node]>>)
         \o loop_nodes(Tail(nodes), func_group)

RECURSIVE perform_stacks(_, _)
perform_stacks(stacks, func_group) ==
    IF stacks = <<>> THEN <<>>
    ELSE loop_nodes(get_root_layer_nodes(Head(stacks)), func_group)
         \o perform_stacks(Tail(stacks), func_group)

RECURSIVE perform_sets(_, _)
perform_sets(sets, func_group) ==
    IF sets = <<>> THEN <<>>
    ELSE perform_stacks(all_stacks(Head(sets)), func_group)
         \o perform_sets(Tail(sets), func_group)

\* perform(func_layer, func_group): every callback of one pass, in order.
perform(func_group) == perform_sets(TextureSets, func_group)

\* The leaf layers in the order a pass without func_group calls func_layer.
LeafOrder == LET made == perform(FALSE) IN [i \in 1..Len(made) |-> made[i].node]

Leaves == {n \in Nodes : kind[n] = "layer"}
Groups == {n \in Nodes : kind[n] = "group"}

RECURSIVE Ancestors(_)
Ancestors(n) == IF parent[n] = 0 THEN {} ELSE {parent[n]} \cup Ancestors(parent[n])

--------------------------------------------------------------------------
(* Initial states: every project within the bounds.  Nodes are numbered    *)
(* level by level, so a parent precedes its children and siblings are in   *)
(* the order of their numbers; every ordered forest has such a numbering.  *)

EmptyFs == [exportDir |-> FALSE, cacheDir |-> FALSE, cacheFiles |-> {},
            extraFiles |-> {}, docs |-> [ts \in {} |-> <<>>]]

TreeOk(k, p, s) ==
    /\ \A n \in Nodes : p[n] < n /\ (p[n] # 0 => k[p[n]] = "group")
    /\ \A n \in Nodes : n > 1 => p[n - 1] <= p[n]
    /\ \A n \in Nodes : p[n] # 0 => s[n] = s[p[n]]
    /\ \A n \in Nodes : (n > 1 /\ p[n] = 0) => s[n - 1] <= s[n]

AnyProject ==
    /\ kind \in [Nodes -> {"group", "layer"}]
    /\ parent \in [Nodes -> 0..MaxNodes]
    /\ stackOf \in [Nodes -> {TextureSets[i] : i \in 1..Len(TextureSets)}]
    /\ TreeOk(kind, parent, stackOf)
    /\ mode \in [Nodes -> HostBlendModes \cup {None}]
    /\ projectOpen \in BOOLEAN
    /\ visible \in [Nodes -> BOOLEAN]
    /\ node_visibility = <<>>
    /\ fs = EmptyFs
    /\ errors = 0
    /\ runs = <<>>
    /\ outcomes = <<>>
    /\ calls = <<>>

\* The compositing modes with a member of the same name in the document library.
MappedModes == {m \in HostBlendModes : Lower(m) \in PsapiBlendModes}

\* Every tree and every visibility; groups composite normally, a leaf has a
\* compositing mode or none.  (The visibility passes read no more of the mode.)
Init ==
    /\ AnyProject
    /\ \A n \in Nodes : mode[n] \in (IF kind[n] = "group" THEN {"Normal"}
                                                        ELSE {"Multiply", None})

\* Every tree and every blend mode, with every node visible.  (The export and
\* the rebuild read no visibility flag.)
InitDocument ==
    /\ AnyProject
    /\ \A n \in Nodes : visible[n]

\* Every tree, for the walker alone.
InitPerform ==
    /\ InitDocument
    /\ projectOpen
    /\ \A n \in Nodes : mode[n] = "Normal"

\* Every tree and every visibility, with leaves of a compositing mode.
InitReentrant ==
    /\ Init
    /\ \A n \in Nodes : mode[n] # None


--------------------------------------------------------------------------
(* The callbacks of generate_textures, as functions of the host state.     *)

\* save_state: node_visibility[str(node.uid())] = node.is_visible()
save_state_KeepMut(nv, vis, node) ==
    [u \in DOMAIN nv \cup {node} |-> IF u \in DOMAIN nv THEN nv[u] ELSE vis[node]]

save_state(nv, vis, node) ==
    [u \in DOMAIN nv \cup {node} |-> IF u = node THEN vis[node] ELSE nv[u]]

\* set_visibility: set_visible(visible) unless the flag already has that value
set_visibility(vis, node, v) ==
    IF ~(vis[node] = v) THEN [vis EXCEPT ![node] = v] ELSE vis

\* reset_visibility: set_visible(saved) when a saved value exists and is True
reset_visibility_AllMut(vis, nv, node) == [vis EXCEPT ![node] = TRUE]

reset_visibility(vis, nv, node) ==
    IF node \in DOMAIN nv /\ nv[node] THEN [vis EXCEPT ![node] = nv[node]] ELSE vis

\* perform(save_state)
RECURSIVE perform_save_state(_, _, _)
perform_save_state(nodes, nv, vis) ==
    IF nodes = <<>> THEN nv
    ELSE perform_save_state(Tail(nodes), save_state(nv, vis, Head(nodes)), vis)

\* perform(set_visibility, func_layer_kwargs=dict(visible=False))
RECURSIVE perform_set_visibility(_, _, _)
perform_set_visibility(nodes, vis, v) ==
    IF nodes = <<>> THEN vis
    ELSE perform_set_visibility(Tail(nodes), set_visibility(vis, Head(nodes), v), v)

\* perform(reset_visibility)
RECURSIVE perform_reset_visibility(_, _, _)
perform_reset_visibility(nodes, vis, nv) ==
    IF nodes = <<>> THEN vis
    ELSE perform_reset_visibility(Tail(nodes), reset_visibility(vis, nv, Head(nodes)), nv)

--------------------------------------------------------------------------
(* generate_psds: the layers added to one texture set's layered file.  A   *)
(* layer is [type, node, under, blend_mode]: `under` is the host node of   *)
(* the group layer it was added to, 0 for layered_file.add_layer.          *)

NoExc == "ok"

\* generate_psds' loop_nodes(nodes, group) with the PNGs of `files` in the cache
RECURSIVE psd_loop_nodes(_, _, _)
psd_loop_nodes(nodes, group, files) ==
    IF nodes = <<>> THEN [exc |-> NoExc, layers |-> <<>>]
    ELSE
      LET node == Head(nodes)
          bm == get_psapi_blending_mode(mode[node])
          here ==
            IF bm = AttributeError THEN [exc |-> AttributeError, layers |-> <<>>]
            ELSE IF kind[node] = "group"
            THEN IF bm # None
                 THEN LET sub == psd_loop_nodes(sub_layers(node), node, files)
                      IN [exc |-> sub.exc,
                          layers |-> <<[type |-> "group", node |-> node,
                                        under |-> group, blend_mode |-> bm]>>
                                     \o sub.layers]
                 ELSE [exc |-> NoExc, layers |-> <<>>]
            ELSE IF bm # None /\ node \in files
                 THEN [exc |-> NoExc,
                       layers |-> <<[type |-> "image", node |-> node,
                                     under |-> group, blend_mode |-> bm]>>]
                 ELSE [exc |-> NoExc, layers |-> <<>>]
      IN IF here.exc # NoExc THEN here
         ELSE LET rest == psd_loop_nodes(Tail(nodes), group, files)
              IN [exc |-> rest.exc, layers |-> here.layers \o rest.layers]

\* the loop over texture_set.all_stacks() for one layered file
RECURSIVE psd_stacks(_, _)
psd_stacks(stacks, files) ==
    IF stacks = <<>> THEN [exc |-> NoExc, layers |-> <<>>]
    ELSE LET here == psd_loop_nodes(get_root_layer_nodes(Head(stacks)), 0, files)
         IN IF here.exc # NoExc THEN here
            ELSE LET rest == psd_stacks(Tail(stacks), files)
                 IN [exc |-> rest.exc, layers |-> here.layers \o rest.layers]

--------------------------------------------------------------------------
(* Activations of generate_textures.  A frame is [pc, i, pre, nested,      *)
(* failed]:                                                                *)
(* pc is the pass the activation is in, i the position in it, pre the      *)
(* visibility flags when it was entered, failed the leaves whose host      *)
(* export returned a status other than Success.                            *)

\* activations entered from the menu with no run in flight, and re-entrant ones
Started == Cardinality({k \in 1..Len(outcomes) : ~outcomes[k].nested})
           + (IF runs # <<>> THEN 1 ELSE 0)
Reentered == Cardinality({k \in 1..Len(outcomes) : outcomes[k].nested})
             + (IF Len(runs) > 1 THEN 1 ELSE 0)
Top == runs[Len(runs)]
At(pc) == runs # <<>> /\ Top.pc = pc

SetTop(pc, i) == runs' = [runs EXCEPT ![Len(runs)] = [@ EXCEPT !.pc = pc, !.i = i]]

\* the activation returns or raises: it leaves the stack
Finish(result) ==
    /\ runs' = SubSeq(runs, 1, Len(runs) - 1)
    /\ outcomes' = Append(outcomes, [result |-> result, pre |-> Top.pre,
                                     nested |-> Top.nested, failed |-> Top.failed])

Inputs == <<kind, parent, stackOf, mode, projectOpen>>

\* generate_textures, lines 242-246: file_path() raises ProjectError
generate_textures_no_project_MkdirMut(nested) ==
    /\ ~projectOpen
    /\ errors' = errors + 1
    /\ fs' = [fs EXCEPT !.exportDir = TRUE, !.cacheDir = TRUE]
    /\ outcomes' = Append(outcomes, [result |-> "no_project", pre |-> visible,
                                     nested |-> nested, failed |-> {}])
    /\ UNCHANGED <<Inputs, visible, node_visibility, runs, calls>>

generate_textures_no_project(nested) ==
    /\ ~projectOpen
    /\ errors' = errors + 1
    /\ outcomes' = Append(outcomes, [result |-> "no_project", pre |-> visible,
                                     nested |-> nested, failed |-> {}])
    /\ UNCHANGED <<Inputs, visible, node_visibility, fs, runs, calls>>

\* generate_textures, lines 242-252: the paths, cache_path.mkdir(parents=True)
generate_textures_begin(nested) ==
    /\ projectOpen
    /\ fs' = [fs EXCEPT !.exportDir = TRUE, !.cacheDir = TRUE]
    /\ runs' = Append(runs, [pc |-> "save", i |-> 1, pre |-> visible,
                             nested |-> nested, failed |-> {}])
    /\ UNCHANGED <<Inputs, visible, node_visibility, errors, outcomes, calls>>

\* the menu action is triggered while no run is in flight
StartNoProject ==
    /\ runs = <<>> /\ Started < MaxRuns
    /\ generate_textures_no_project(FALSE)

StartRun ==
    /\ runs = <<>> /\ Started < MaxRuns
    /\ generate_textures_begin(FALSE)

\* line 254: perform(save_state)
SaveState ==
    /\ At("save")
    /\ node_visibility' = perform_save_state(LeafOrder, node_visibility, visible)
    /\ SetTop("hide", 1)
    /\ UNCHANGED <<Inputs, visible, fs, errors, outcomes, calls>>

\* line 256: perform(set_visibility, visible=False)
HideAll ==
    /\ At("hide")
    /\ visible' = perform_set_visibility(LeafOrder, visible, FALSE)
    /\ SetTop("export", 1)
    /\ UNCHANGED <<Inputs, node_visibility, fs, errors, outcomes, calls>>

\* export, lines 221-235, up to the host's export_project_textures
ExportBegin ==
    /\ At("export") /\ Top.i <= Len(LeafOrder)
    /\ LET node == LeafOrder[Top.i] IN
       IF node \notin DOMAIN node_visibility
       THEN \* list(node_visibility).index(...) raises ValueError
            /\ Finish("ValueError")
            /\ UNCHANGED visible
       ELSE /\ visible' = set_visibility(visible, node, TRUE)
            /\ IF Len(SplitStr(mode[node])) < 2
               THEN Finish(IndexError)
               ELSE SetTop("export_call", Top.i) /\ UNCHANGED outcomes
    /\ UNCHANGED <<Inputs, node_visibility, fs, errors, calls>>

\* export_textures, lines 32-33 and 94-98, and export, line 237: the host
\* export returns (it writes the PNG when its status is Success)
export_return_NoHideMut(node, status) ==
    /\ fs' = IF ~projectOpen \/ status # "Success" THEN fs
             ELSE IF StartsWithNormalMap(SplitStr(mode[node])[2])
             THEN [fs EXCEPT !.exportDir = TRUE, !.extraFiles = @ \cup {node}]
             ELSE [fs EXCEPT !.exportDir = TRUE, !.cacheDir = TRUE,
                             !.cacheFiles = @ \cup {node}]
    /\ visible' = visible

export_return(node, status) ==
    /\ fs' = IF ~projectOpen \/ status # "Success" THEN fs
             ELSE IF StartsWithNormalMap(SplitStr(mode[node])[2])
             THEN [fs EXCEPT !.exportDir = TRUE, !.extraFiles = @ \cup {node}]
             ELSE [fs EXCEPT !.exportDir = TRUE, !.cacheDir = TRUE,
                             !.cacheFiles = @ \cup {node}]
    /\ visible' = set_visibility(visible, node, FALSE)

ExportReturn ==
    /\ At("export_call")
    /\ \E status \in {"Success", "Error"} :
         /\ export_return(LeafOrder[Top.i], status)
         /\ runs' = [runs EXCEPT ![Len(runs)] =
                       [@ EXCEPT !.pc = "export", !.i = @ + 1,
                                 !.failed = IF status = "Success" THEN @
                                            ELSE @ \cup {LeafOrder[Top.i]}]]
    /\ UNCHANGED <<Inputs, node_visibility, errors, outcomes, calls>>

\* line 258: perform(reset_visibility)
ResetVisibility ==
    /\ At("export") /\ Top.i > Len(LeafOrder)
    /\ visible' = perform_reset_visibility(LeafOrder, visible, node_visibility)
    /\ SetTop("psds", 1)
    /\ UNCHANGED <<Inputs, node_visibility, fs, errors, outcomes, calls>>

\* generate_psds, lines 103-152: one texture set's layered file, and its write
PsdTextureSet ==
    /\ At("psds") /\ Top.i <= Len(TextureSets)
    /\ LET ts == TextureSets[Top.i]
           built == psd_stacks(all_stacks(ts), IF fs.cacheDir THEN fs.cacheFiles ELSE {})
       IN IF built.exc # NoExc
          THEN Finish(built.exc) /\ UNCHANGED fs
          ELSE \E written \in BOOLEAN :
                 IF written
                 THEN /\ fs' = [fs EXCEPT !.docs =
                                  [t \in DOMAIN fs.docs \cup {ts} |->
                                     IF t = ts THEN built.layers ELSE fs.docs[t]]]
                      /\ SetTop("psds", Top.i + 1)
                      /\ UNCHANGED outcomes
                 ELSE Finish("WriteError") /\ UNCHANGED fs
    /\ UNCHANGED <<Inputs, visible, node_visibility, errors, calls>>

\* generate_psds, lines 155-156: shutil.rmtree(cache_path)
delete_cache_KeepMut(f, delete_on_success) == f

delete_cache(f, delete_on_success) ==
    IF delete_on_success THEN [f EXCEPT !.cacheDir = FALSE, !.cacheFiles = {}] ELSE f

DeleteCache ==
    /\ At("psds") /\ Top.i > Len(TextureSets)
    /\ fs' = delete_cache(fs, TRUE)
    /\ Finish(IF fs.cacheDir THEN "done" ELSE "FileNotFoundError")
    /\ UNCHANGED <<Inputs, visible, node_visibility, errors, calls>>

\* the menu action is triggered again while the host export of a run is in flight
Reenter ==
    /\ Len(runs) = 1 /\ At("export_call") /\ Reentered < MaxReentries
    /\ generate_textures_begin(TRUE)

\* one pass of perform over the project, with or without func_group
PerformPass ==
    /\ calls = <<>>
    /\ \E func_group \in BOOLEAN :
         calls' = <<[f |-> IF func_group THEN "with func_group" ELSE "no func_group",
                    node |-> 0]>> \o perform(func_group)
    /\ UNCHANGED <<Inputs, visible, node_visibility, fs, errors, runs, outcomes>>

Next ==
    \/ StartNoProject
    \/ StartRun
    \/ SaveState
    \/ HideAll
    \/ ExportBegin
    \/ ExportReturn
    \/ ResetVisibility
    \/ PsdTextureSet
    \/ DeleteCache

Spec == Init /\ [][Next]_vars

SpecDocument == InitDocument /\ [][Next]_vars

NextReentrant == Next \/ Reenter

SpecReentrant == InitReentrant /\ [][NextReentrant]_vars

SpecPerform == InitPerform /\ [][PerformPass]_vars


--------------------------------------------------------------------------
(* Properties.                                                             *)

Last(seq) == seq[Len(seq)]
Idle == runs = <<>> /\ outcomes # <<>>

\* C1: after a run of generate_textures that completes with a project open
\* and no exception, every leaf layer and every group has the visibility flag
\* it had when the run was entered.
C1_VisibilityRestored ==
    (Idle /\ Last(outcomes).result = "done")
        => \A n \in Nodes : visible[n] = Last(outcomes).pre[n]

C1_Witness ==
    /\ Idle /\ Last(outcomes).result = "done"
    /\ \E a, b \in Leaves, g \in Groups :
         /\ parent[a] = g
         /\ Last(outcomes).pre[a] /\ ~Last(outcomes).pre[b] /\ ~Last(outcomes).pre[g]

\* C2: entered with no project open, generate_textures logs exactly one error
\* and returns at once: no directory or file is created, no activation stays
\* in flight (so no export is called), no visibility flag and no entry of
\* node_visibility changes.
C2_NoProjectNoEffect ==
    [][(~projectOpen /\ Started' > Started)
         => /\ errors' = errors + 1
            /\ runs' = runs
            /\ Last(outcomes').result = "no_project"
            /\ fs' = fs
            /\ visible' = visible
            /\ node_visibility' = node_visibility]_vars

C2_Witness ==
    /\ ~projectOpen /\ Idle
    /\ Last(outcomes).result = "no_project"
    /\ errors = 1 /\ fs = EmptyFs /\ node_visibility = <<>>
    /\ \E a \in Leaves : visible[a]

\* the PNGs an activation's export pass left in the cache
ExportedToCache(o) ==
    {l \in Leaves : l \notin o.failed /\ ~StartsWithNormalMap(SplitStr(mode[l])[2])}

\* C5: with delete_on_success=True the cache directory is gone once
\* generate_psds has completed for every texture set, and it is still there,
\* with the PNGs of the export pass, when a document write raised.
C5_CacheDeletedOnlyOnSuccess ==
    Idle =>
      /\ Last(outcomes).result = "done" => ~fs.cacheDir /\ fs.cacheFiles = {}
      /\ Last(outcomes).result = "WriteError"
           => fs.cacheDir /\ ExportedToCache(Last(outcomes)) \subseteq fs.cacheFiles

C5_Witness ==
    /\ Idle /\ Last(outcomes).result = "WriteError"
    /\ TextureSets[1] \in DOMAIN fs.docs
    /\ fs.cacheDir /\ Cardinality(fs.cacheFiles) >= 2

\* C8: at every call of the host export the leaf being exported is visible
\* and every other leaf of every texture set is hidden, and between two
\* calls (the exported layer hidden again, the next not yet shown) every leaf
\* is hidden.
C8_OnlyExportedLayerVisible ==
    /\ At("export_call") => \A l \in Leaves : visible[l] <=> (l = LeafOrder[Top.i])
    /\ At("export") => \A l \in Leaves : ~visible[l]

C8_Witness ==
    /\ At("export_call") /\ Top.i >= 2
    /\ Cardinality({l \in Leaves : Top.pre[l]}) >= 2
    /\ \E l \in Leaves : stackOf[l] # stackOf[LeafOrder[Top.i]]

\* C10: whatever the blend mode of a leaf, the export callback does not
\* raise: no activation ends in the export pass, before reset_visibility.
C10_ExportNeverRaises ==
    \A k \in 1..Len(outcomes) : outcomes[k].result \notin {IndexError, "ValueError"}

--------------------------------------------------------------------------
(* Properties of the walker.                                               *)

\* positions of the callbacks made on a node or on one of its descendants
CallsWithin(n) ==
    {i \in 2..Len(calls) : calls[i].node = n \/ n \in Ancestors(calls[i].node)}

\* C3: one pass of perform calls func_group on a group before any callback on
\* the group's descendants, goes through siblings (and all that is below them)
\* in their order, and calls func_layer exactly once on every leaf of every
\* stack, whether or not func_group is supplied.
C3_PreOrderWalk ==
    calls # <<>> =>
      /\ \A l \in Leaves :
           Cardinality({i \in 2..Len(calls) : calls[i].node = l}) = 1
      /\ \A i \in 2..Len(calls) :
           calls[i].f = (IF kind[calls[i].node] = "group" THEN "func_group"
                                                        ELSE "func_layer")
      /\ \A g \in Groups :
           IF calls[1].f = "with func_group"
           THEN /\ Cardinality({i \in 2..Len(calls) : calls[i].node = g}) = 1
                /\ \A i \in CallsWithin(g) :
                     calls[i].node # g => \E j \in 1..(i - 1) : calls[j].node = g
           ELSE \A i \in 2..Len(calls) : calls[i].node # g
      /\ \A a, b \in Nodes :
           (a < b /\ parent[a] = parent[b] /\ stackOf[a] = stackOf[b])
             => \A i \in CallsWithin(a), j \in CallsWithin(b) : i < j

C3_Witness ==
    /\ calls # <<>> /\ calls[1].f = "with func_group"
    /\ \E g \in Groups, l \in Leaves, r \in Nodes :
         /\ parent[l] = g /\ g < r /\ r < l
         /\ parent[r] = parent[g] /\ stackOf[r] = stackOf[g]

--------------------------------------------------------------------------
(* Properties of the rebuilt documents.                                    *)

\* the layers of texture set ts's document that were made from host node n
LayersOf(ts, n) ==
    IF ts \in DOMAIN fs.docs
    THEN {fs.docs[ts][i] : i \in {j \in 1..Len(fs.docs[ts]) : fs.docs[ts][j].node = n}}
    ELSE {}

\* the texture sets whose document this activation has written
WrittenSets == {TextureSets[j] : j \in 1..(Top.i - 1)}

\* C4: when the host export fails for one leaf, the run goes on to write the
\* documents, every other leaf still has an image layer in them and the
\* failed leaf has none.  (Stated for the leaves with a compositing mode that
\* psapi has a member for: even of these the claim fails.)
C4_OtherLayersStillInDocument ==
    (At("psds") /\ Top.i > Len(TextureSets) /\ Cardinality(Top.failed) = 1)
      => \A l \in Leaves :
           mode[l] \in MappedModes
             => ((\E x \in LayersOf(stackOf[l], l) : x.type = "image")
                   <=> (l \notin Top.failed))

\* C6: every leaf whose PNG is in the cache has an image layer in its texture
\* set's document, under the group layer of its parent group (or at the root)
\* and with the psapi member named like its blend mode; each of its ancestor
\* groups has a group layer with the same nesting.  (Stated for the leaves
\* with a compositing mode that psapi has a member for.)
C6_HierarchyRebuilt ==
    At("psds") =>
      \A l \in Leaves :
        (/\ fs.cacheDir /\ l \in fs.cacheFiles /\ stackOf[l] \in WrittenSets
         /\ mode[l] \in MappedModes)
          => /\ [type |-> "image", node |-> l, under |-> parent[l],
                 blend_mode |-> Lower(mode[l])] \in LayersOf(stackOf[l], l)
             /\ \A g \in Ancestors(l) :
                  \E x \in LayersOf(stackOf[l], g) :
                    x.type = "group" /\ x.under = parent[g]

\* C7: the mapper yields None for an unset or a NormalMap blend mode and the
\* psapi member of the same lower-cased name for any other.
C7_MappingTotal ==
    At("psds") =>
      \A n \in Nodes :
        LET got == get_psapi_blending_mode(mode[n]) IN
        IF mode[n] = None \/ StartsWithNormalMap(mode[n])
        THEN got = None
        ELSE got \in PsapiBlendModes /\ got = Lower(mode[n])

--------------------------------------------------------------------------
(* Properties of re-entrant runs.                                          *)

\* C9: nothing keeps a second run from entering while the host export of a
\* first is in flight; once the second has made its capture pass,
\* node_visibility holds the hidden state of every leaf but the one being
\* exported, and when both have completed at most that one leaf is visible.
C9_ReentryOverwritesSavedState ==
    /\ (Len(runs) = 2 /\ runs[1].pc = "export_call" /\ runs[2].pc # "save")
         => \A l \in Leaves \ {LeafOrder[runs[1].i]} :
              l \in DOMAIN node_visibility /\ ~node_visibility[l]
    /\ (runs = <<>> /\ Len(outcomes) >= 2
        /\ outcomes[Len(outcomes) - 1].nested
        /\ outcomes[Len(outcomes) - 1].result = "done"
        /\ Last(outcomes).result = "done")
         => Cardinality({l \in Leaves : visible[l]}) <= 1

C9_Witness ==
    /\ runs = <<>> /\ Len(outcomes) = 2
    /\ outcomes[1].nested /\ outcomes[1].result = "done"
    /\ ~outcomes[2].nested /\ outcomes[2].result = "done"
    /\ \E l \in Leaves : outcomes[2].pre[l] /\ ~visible[l]

==========================================================================
